---- MODULE Spec2Model ----
(***************************************************************************)
(* Token-list update scripts of the asset registry:                        *)
(* src/script/blockchain/ethereum.ts holds the Ethereum module (lines      *)
(* 1-155) and the Smart Chain module (lines 156-308).                      *)
(*                                                                         *)
(* Strings that the code transforms (symbols: toUpperCase, addresses:      *)
(* toLowerCase / toChecksum, decimals: parseInt) are sequences of ASCII    *)
(* codes, so that the transformations are computed.  An optional value     *)
(* (a JavaScript property that may be undefined) is a sequence of length   *)
(* 0 or 1.                                                                 *)
(***************************************************************************)
EXTENDS Integers, Sequences, FiniteSets, TLC

VARIABLES
    allowFile,  \* [chain -> allowlist.json on disk]
    logoDirs,   \* set of logo paths that exist on disk
    baseFile,   \* [chain -> tokens of the base token list on disk]
    outFile,    \* [chain -> written token list, or Absent]
    pc,         \* [chain -> position of update()]
    allowlist,  \* [chain -> allowlist read by retrieve*Pairs]
    list,       \* [chain -> list.tokens of generateTokenlist]
    pairs,      \* [chain -> raw pairs returned by getTradingPairs]
    filtered,   \* [chain -> pairs kept by retrieve*Pairs]
    midx,       \* [chain -> pairs already merged by the forEach loop]
    err,        \* [chain -> what rejected update()'s promise]
    running,    \* the chain whose synchronous code runs, or "none"
    q           \* one evaluation of the pair qualifier

vars == <<allowFile, logoDirs, baseFile, outFile, pc, allowlist, list, pairs,
          filtered, midx, err, running, q>>

-----------------------------------------------------------------------------
(* Optional values *)

Absent == <<>>

Some(x) == <<x>>

-----------------------------------------------------------------------------
(* Chains and their module constants *)

Ethereum == "ethereum"

SmartChain == "smartchain"

Chains == {Ethereum, SmartChain}

Uniswap_MinLiquidity == 1000000

PancakeSwap_MinLiquidity == 1000000

MinLiquidity(c) == IF c = Ethereum THEN Uniswap_MinLiquidity ELSE PancakeSwap_MinLiquidity

\* symbols as ASCII codes
symWETH == <<87, 69, 84, 72>>

symETH == <<69, 84, 72>>

symWBNB == <<87, 66, 78, 66>>

symBNB == <<66, 78, 66>>

symweth == <<119, 101, 116, 104>>

symEth == <<69, 116, 104>>

symDAI == <<68, 65, 73>>

symBAD == <<66, 65, 68>>

symwbnb == <<119, 98, 110, 98>>

PrimaryTokens(c) == IF c = Ethereum THEN <<symWETH, symETH>> ELSE <<symWBNB, symBNB>>

-----------------------------------------------------------------------------
(* String functions *)

toUpperCase(s) == [i \in 1..Len(s) |-> IF s[i] \in 97..122 THEN s[i] - 32 ELSE s[i]]

toLowerCase(s) == [i \in 1..Len(s) |-> IF s[i] \in 65..90 THEN s[i] + 32 ELSE s[i]]

IsDigit(ch) == ch \in 48..57

RECURSIVE DigitsValue(_)
DigitsValue(s) ==
    IF s = <<>> THEN 0
    ELSE 10 * DigitsValue(SubSeq(s, 1, Len(s) - 1)) + (s[Len(s)] - 48)

RECURSIVE DigitPrefix(_)
DigitPrefix(s) ==
    IF s = <<>> \/ ~IsDigit(Head(s)) THEN <<>>
    ELSE <<Head(s)>> \o DigitPrefix(Tail(s))

\* parseInt(string): the leading digits' value, or NaN (Absent) without any
parseInt(s) == IF DigitPrefix(s) = <<>> THEN Absent ELSE Some(DigitsValue(DigitPrefix(s)))

-----------------------------------------------------------------------------
(* generic/eth-address, generic/asset, generic/repo-structure,            *)
(* generic/filesystem                                                      *)

IsHexChar(ch) == ch \in 48..57 \/ ch \in 97..102 \/ ch \in 65..70

IsAddress(id) == id # <<>> /\ \A i \in 1..Len(id) : IsHexChar(id[i])

RECURSIVE CodeSum(_)
CodeSum(s) == IF s = <<>> THEN 0 ELSE Head(s) + CodeSum(Tail(s))

\* case-mixing checksum: the case of each letter is decided by a digest of the
\* lower-cased address
toChecksum(id) ==
    LET low == toLowerCase(id)
    IN  [i \in 1..Len(low) |->
            IF low[i] \in 97..102 /\ (CodeSum(low) + i) % 2 = 0
            THEN low[i] - 32 ELSE low[i]]

assetID(coin, idChecksum) == <<coin, idChecksum>>

logoURI(idChecksum, chainName) == <<chainName, idChecksum>>

getChainAssetLogoPath(c, id) == <<c, id>>

isPathExistsSync(path, disk) == path \in disk

getChainTokenlistPath(c) == c

-----------------------------------------------------------------------------
(* Pair qualification *)

\* checkEthTokenExists / checkBSCTokenExists
checkTokenExists(c, id, tokenAllowlist, disk) ==
    IF ~isPathExistsSync(getChainAssetLogoPath(c, id), disk) THEN FALSE
    ELSE IF ~\E i \in 1..Len(tokenAllowlist) :
                 toLowerCase(id) = toLowerCase(tokenAllowlist[i]) THEN FALSE
    ELSE TRUE

isTokenPrimary_caseSensitive(c, token) ==
    \E i \in 1..Len(PrimaryTokens(c)) : PrimaryTokens(c)[i] = token.symbol

isTokenPrimary(c, token) ==
    \E i \in 1..Len(PrimaryTokens(c)) : PrimaryTokens(c)[i] = toUpperCase(token.symbol)

\* a read of pair.tokenN.<property> throws a TypeError when tokenN is undefined
Throws == "throws"

\* "1", "2", "0", or Throws
primaryTokenIndex(c, pair) ==
    IF pair.token0 = Absent THEN Throws
    ELSE IF isTokenPrimary(c, pair.token0[1]) THEN "1"
    ELSE IF pair.token1 = Absent THEN Throws
    ELSE IF isTokenPrimary(c, pair.token1[1]) THEN "2"
    ELSE "0"

\* JavaScript: !x for a string, a number, an object
falsyId(pair) == pair.id = ""

falsyReserve(pair) == pair.reserveUSD = Absent \/ pair.reserveUSD = Some(0)

\* JavaScript: undefined < n is false
jsLess(x, n) == x # Absent /\ x[1] < n

checkTradingPair_noSecondCheck(c, pair, minLiquidity, tokenAllowlist, disk) ==
    IF falsyId(pair) /\ falsyReserve(pair) /\ pair.token0 = Absent /\ pair.token1 = Absent
    THEN "false"
    ELSE IF jsLess(pair.reserveUSD, minLiquidity) THEN "false"
    ELSE IF pair.token0 = Absent THEN Throws
    ELSE IF ~checkTokenExists(c, pair.token0[1].id, tokenAllowlist, disk)
         THEN (IF pair.token1 = Absent THEN Throws ELSE "false")
    ELSE IF pair.token1 = Absent THEN Throws
    ELSE IF primaryTokenIndex(c, pair) = Throws THEN Throws
    ELSE IF primaryTokenIndex(c, pair) = "0" THEN "false"
    ELSE "true"

\* "true", "false", or Throws
checkTradingPair(c, pair, minLiquidity, tokenAllowlist, disk) ==
    IF falsyId(pair) /\ falsyReserve(pair) /\ pair.token0 = Absent /\ pair.token1 = Absent
    THEN "false"
    ELSE IF jsLess(pair.reserveUSD, minLiquidity) THEN "false"
    ELSE IF pair.token0 = Absent THEN Throws
    ELSE IF ~checkTokenExists(c, pair.token0[1].id, tokenAllowlist, disk)
         \* the log line reads pair.token1.symbol
         THEN (IF pair.token1 = Absent THEN Throws ELSE "false")
    ELSE IF pair.token1 = Absent THEN Throws
    ELSE IF ~checkTokenExists(c, pair.token1[1].id, tokenAllowlist, disk) THEN "false"
    ELSE IF primaryTokenIndex(c, pair) = Throws THEN Throws
    ELSE IF primaryTokenIndex(c, pair) = "0" THEN "false"
    ELSE "true"

-----------------------------------------------------------------------------
(* Raw tokens and pairs of the subgraph *)

TokenInfo(id, symbol, name, decimals) ==
    [id |-> id, symbol |-> symbol, name |-> name, decimals |-> decimals]

PairInfo(kind, id, reserveUSD, token0, token1) ==
    [kind |-> kind, id |-> id, reserveUSD |-> reserveUSD, token0 |-> token0, token1 |-> token1]

\* raw addresses "a1", "A1", "b1", "B1", "c1", "e1", "f1", "F1"
ida1 == <<97, 49>>

idA1 == <<65, 49>>

idb1 == <<98, 49>>

idB1 == <<66, 49>>

idc1 == <<99, 49>>

ide1 == <<101, 49>>

idf1 == <<102, 49>>

idF1 == <<70, 49>>

dec18 == <<49, 56>>

tWETH == TokenInfo(ida1, symWETH, "Wrapped Ether", Some(dec18))

tWethAlt == TokenInfo(idA1, symweth, "Wrapped Ether", Some(dec18))

tDAI == TokenInfo(idb1, symDAI, "Dai", Some(dec18))

tDAIv2 == TokenInfo(idB1, symDAI, "Dai v2", Some(dec18))

tETH == TokenInfo(idc1, symEth, "Ether", Some(dec18))

\* a token whose decimals the subgraph did not deliver
tBAD == TokenInfo(ide1, symBAD, "Bad", Absent)

tWBNB == TokenInfo(idf1, symWBNB, "Wrapped BNB", Some(dec18))

tWbnbAlt == TokenInfo(idF1, symwbnb, "Wrapped BNB", Some(dec18))

-----------------------------------------------------------------------------
(* One evaluation of the qualifier: inputs drawn in InitQ *)

QTokens == {Absent, Some(tWETH), Some(tWethAlt), Some(tDAI), Some(tETH), Some(tBAD), Some(tWBNB)}

QReserves == {Absent, Some(0), Some(500000), Some(1000000), Some(2000000)}

\* the two sides of a pool are different contracts
SameContract(t0, t1) == t0 # Absent /\ t1 # Absent /\ toLowerCase(t0[1].id) = toLowerCase(t1[1].id)

QPairs ==
    {PairInfo("object", id, r, tt[1], tt[2]) :
        id \in {"", "0xpair"}, r \in QReserves,
        tt \in {x \in QTokens \X QTokens : ~SameContract(x[1], x[2])}}

QAllowlists ==
    { <<>>,
      <<ida1>>,
      <<ida1, idb1, idc1, ide1, idf1>>,
      <<idA1, idB1, idF1>> }

QDisks(c) ==
    { {},
      {getChainAssetLogoPath(c, id) : id \in {ida1, idA1, idb1, idc1, ide1, idf1}},
      {getChainAssetLogoPath(c, id) : id \in {ida1, idb1, idf1}},
      {getChainAssetLogoPath(c, id) : id \in {idA1, idc1}} }

IdleFiles == [c \in Chains |-> <<>>]

InitQ ==
    /\ allowFile = IdleFiles
    /\ baseFile = IdleFiles
    /\ outFile = IdleFiles
    /\ pc = [c \in Chains |-> "idle"]
    /\ allowlist = IdleFiles
    /\ list = IdleFiles
    /\ pairs = IdleFiles
    /\ filtered = IdleFiles
    /\ midx = [c \in Chains |-> 0]
    /\ err = [c \in Chains |-> "none"]
    /\ running = "none"
    /\ \E c \in Chains :
          /\ logoDirs \in QDisks(c)
          /\ \E p \in QPairs, a \in QAllowlists :
                q = [chain |-> c, pair |-> p, allow |-> a,
                     result |-> Absent, index |-> Absent]

pipelineVars == <<allowFile, logoDirs, baseFile, outFile, pc, allowlist, list,
                  pairs, filtered, midx, err, running>>

\* a call checkTradingPair(pair, minLiquidity, allowlist)
Qualify ==
    /\ q.result = Absent
    /\ q' = [q EXCEPT !.result =
                Some(checkTradingPair(q.chain, q.pair, MinLiquidity(q.chain), q.allow, logoDirs))]
    /\ UNCHANGED pipelineVars

\* a call primaryTokenIndex(pair)
Classify ==
    /\ q.index = Absent
    /\ q' = [q EXCEPT !.index = Some(primaryTokenIndex(q.chain, q.pair))]
    /\ UNCHANGED pipelineVars

NextQ == Qualify \/ Classify

SpecQ == InitQ /\ [][NextQ]_vars

-----------------------------------------------------------------------------
(* Filtering of the fetched pairs (retrieveUniswapPairs, retrievePancakeSwapPairs) *)

\* the body of pairs.forEach: typeof(x) === "object", x truthy, checkTradingPair
\* true; an exception is caught and the pair is not pushed
keepsPair(c, x, allow, disk) ==
    /\ x.kind \in {"object", "null"}   \* typeof null is "object"
    /\ x.kind # "null"                 \* if (pairInfo)
    /\ checkTradingPair(c, x, MinLiquidity(c), allow, disk) = "true"

RECURSIVE filterPairs(_, _, _, _)
filterPairs(c, xs, allow, disk) ==
    IF xs = <<>> THEN <<>>
    ELSE (IF keepsPair(c, Head(xs), allow, disk) THEN <<Head(xs)>> ELSE <<>>)
            \o filterPairs(c, Tail(xs), allow, disk)

-----------------------------------------------------------------------------
(* Canonical tokens and the merge (generic/tokenlists) *)

CoinType(c) == IF c = Ethereum THEN 60 ELSE 20000714

TokenType(c) == IF c = Ethereum THEN "ERC20" ELSE "BEP20"

TokenItem(asset, type, address, name, symbol, decimals, logo, tokenPairs) ==
    [asset |-> asset, type |-> type, address |-> address, name |-> name,
     symbol |-> symbol, decimals |-> decimals, logoURI |-> logo, pairs |-> tokenPairs]

\* toChecksum rejects what is not an address; undefined.toString() is a TypeError
tokenInfoThrows(token) == ~IsAddress(token.id) \/ token.decimals = Absent

tokenInfoFromSubgraphToken_rawId(c, token) ==
    TokenItem(assetID(CoinType(c), token.id), TokenType(c), token.id, token.name,
              token.symbol, parseInt(token.decimals[1]), logoURI(token.id, c), <<>>)

tokenInfoFromSubgraphToken(c, token) ==
    LET idChecksum == toChecksum(token.id)
    IN  TokenItem(assetID(CoinType(c), idChecksum), TokenType(c), idChecksum, token.name,
                  token.symbol, parseInt(token.decimals[1]), logoURI(idChecksum, c), <<>>)

addTokenIfNeeded(token, tokens) ==
    IF \E i \in 1..Len(tokens) : tokens[i].address = token.address
    THEN tokens ELSE Append(tokens, token)

addPairIfNeeded(token0, token1, tokens) ==
    addTokenIfNeeded(token1, addTokenIfNeeded(token0, tokens))

generateTokensList(name, tokens, timestamp, major, minor, patch) ==
    [name |-> name, timestamp |-> timestamp,
     version |-> [major |-> major, minor |-> minor, patch |-> patch], tokens |-> tokens]

ListName(c) == IF c = Ethereum THEN "Ethereum" ELSE "Smart Chain"

\* the body of tradingPairs.forEach throws
mergeThrows(p) == tokenInfoThrows(p.token0[1]) \/ tokenInfoThrows(p.token1[1])

orient_swapOnFirst(c, p) ==
    LET tokenItem0 == tokenInfoFromSubgraphToken(c, p.token0[1])
        tokenItem1 == tokenInfoFromSubgraphToken(c, p.token1[1])
    IN  IF primaryTokenIndex(c, p) = "1" THEN <<tokenItem1, tokenItem0>>
        ELSE <<tokenItem0, tokenItem1>>

\* <<tokenItem0, tokenItem1>> as passed to addPairIfNeeded
orient(c, p) ==
    LET tokenItem0 == tokenInfoFromSubgraphToken(c, p.token0[1])
        tokenItem1 == tokenInfoFromSubgraphToken(c, p.token1[1])
    IN  IF primaryTokenIndex(c, p) = "2" THEN <<tokenItem1, tokenItem0>>
        ELSE <<tokenItem0, tokenItem1>>

mergePair_freshList(c, p, tokens) == addPairIfNeeded(orient(c, p)[1], orient(c, p)[2], <<>>)

\* list.tokens after the body of tradingPairs.forEach ran for p
mergePair(c, p, tokens) == addPairIfNeeded(orient(c, p)[1], orient(c, p)[2], tokens)

outputPath_ethereum(c) == getChainTokenlistPath(Ethereum)

\* the path generateTokenlist writes to
outputPath(c) == getChainTokenlistPath(IF c = Ethereum THEN Ethereum ELSE SmartChain)

-----------------------------------------------------------------------------
(* What the disk and the subgraphs may hold *)

MaxPairs == 2

itemWETH == tokenInfoFromSubgraphToken(Ethereum, tWETH)

\* an entry of the base list whose name the subgraph reports differently
itemDAI == TokenItem(assetID(CoinType(Ethereum), toChecksum(idb1)), TokenType(Ethereum),
                     toChecksum(idb1), "Dai Stablecoin", symDAI, Some(18),
                     logoURI(toChecksum(idb1), Ethereum), <<>>)

itemWBNB == tokenInfoFromSubgraphToken(SmartChain, tWBNB)

BaseLists(c) ==
    IF c = Ethereum THEN { <<>>, <<itemWETH>>, <<itemDAI, itemWETH>> }
    ELSE { <<>>, <<itemWBNB>> }

Allowlists(c) ==
    IF c = Ethereum THEN <<idA1, idB1, idc1, ide1>> ELSE <<ida1, idf1>>

LogoIds(c) ==
    IF c = Ethereum THEN {ida1, idA1, idb1, idB1, idc1, ide1} ELSE {ida1, idf1, idF1}

PairUniverse(c) ==
    IF c = Ethereum
    THEN { PairInfo("object", "0xp1", Some(2000000), Some(tWETH), Some(tDAI)),
           PairInfo("object", "0xp2", Some(1000000), Some(tDAIv2), Some(tWethAlt)),
           PairInfo("object", "0xp3", Some(2000000), Some(tETH), Some(tWETH)),
           PairInfo("object", "0xp4", Some(2000000), Some(tWETH), Some(tBAD)),
           PairInfo("object", "0xp5", Some(500000), Some(tDAI), Some(tWETH)),
           PairInfo("object", "0xp6", Some(2000000), Absent, Some(tDAI)) }
    ELSE { PairInfo("object", "0xs1", Some(2000000), Some(tWETH), Some(tWbnbAlt)),
           PairInfo("object", "0xs2", Some(2000000), Some(tWBNB), Some(tWETH)),
           PairInfo("null", "", Absent, Absent, Absent) }

SeqsUpTo(S, n) == UNION {[1..k -> S] : k \in 0..n}

-----------------------------------------------------------------------------
(* update() of EthereumAction and SmartchainAction *)

Init ==
    /\ allowFile = [c \in Chains |-> Allowlists(c)]
    /\ logoDirs = UNION {{getChainAssetLogoPath(c, id) : id \in LogoIds(c)} : c \in Chains}
    /\ baseFile \in {f \in [Chains -> UNION {BaseLists(c) : c \in Chains}] :
                        \A c \in Chains : f[c] \in BaseLists(c)}
    /\ outFile = [c \in Chains |-> Absent]
    /\ pc = [c \in Chains |-> "idle"]
    /\ allowlist = [c \in Chains |-> <<>>]
    /\ list = [c \in Chains |-> <<>>]
    /\ pairs = [c \in Chains |-> <<>>]
    /\ filtered = [c \in Chains |-> <<>>]
    /\ midx = [c \in Chains |-> 0]
    /\ err = [c \in Chains |-> "none"]
    /\ running = "none"
    /\ q = Absent

\* update() is called: generateTokenlist reads the base list, retrieve*Pairs
\* reads the allowlist and awaits getTradingPairs
Start(c) ==
    /\ pc[c] = "idle"
    /\ running = "none"
    /\ list' = [list EXCEPT ![c] = baseFile[c]]
    /\ allowlist' = [allowlist EXCEPT ![c] = allowFile[c]]
    /\ pc' = [pc EXCEPT ![c] = "awaiting"]
    /\ UNCHANGED <<allowFile, logoDirs, baseFile, outFile, pairs, filtered, midx, err, running, q>>

FetchFail_swallowed(c) ==
    /\ pc[c] = "awaiting"
    /\ running = "none"
    /\ err' = [err EXCEPT ![c] = "transport"]
    /\ pc' = [pc EXCEPT ![c] = "resumed"]
    /\ UNCHANGED <<allowFile, logoDirs, baseFile, outFile, allowlist, list, pairs, filtered,
                   midx, running, q>>

\* getTradingPairs rejects: nothing catches it up to update()'s caller
FetchFail(c) ==
    /\ pc[c] = "awaiting"
    /\ running = "none"
    /\ err' = [err EXCEPT ![c] = "transport"]
    /\ pc' = [pc EXCEPT ![c] = "aborted"]
    /\ UNCHANGED <<allowFile, logoDirs, baseFile, outFile, allowlist, list, pairs, filtered,
                   midx, running, q>>

\* getTradingPairs resolves: retrieve*Pairs filters the pairs and returns
FetchOk(c) ==
    /\ pc[c] = "awaiting"
    /\ running = "none"
    /\ \E ps \in SeqsUpTo(PairUniverse(c), MaxPairs) :
          /\ pairs' = [pairs EXCEPT ![c] = ps]
          /\ filtered' = [filtered EXCEPT ![c] = filterPairs(c, ps, allowlist[c], logoDirs)]
    /\ pc' = [pc EXCEPT ![c] = "resumed"]
    /\ UNCHANGED <<allowFile, logoDirs, baseFile, outFile, allowlist, list, midx, err, running, q>>

\* the synchronous code after await retrieve*Pairs() runs to its end before
\* another continuation starts
MayRun(c) ==
    \/ pc[c] = "resumed" /\ running = "none"
    \/ pc[c] = "merging" /\ running = c

\* one pass of tradingPairs.forEach
MergeStep(c) ==
    /\ MayRun(c)
    /\ midx[c] < Len(filtered[c])
    /\ ~mergeThrows(filtered[c][midx[c] + 1])
    /\ list' = [list EXCEPT ![c] = mergePair(c, filtered[c][midx[c] + 1], list[c])]
    /\ midx' = [midx EXCEPT ![c] = midx[c] + 1]
    /\ pc' = [pc EXCEPT ![c] = "merging"]
    /\ running' = c
    /\ UNCHANGED <<allowFile, logoDirs, baseFile, outFile, allowlist, pairs, filtered, err, q>>

\* one pass of tradingPairs.forEach throws: nothing catches it
MergeThrow(c) ==
    /\ MayRun(c)
    /\ midx[c] < Len(filtered[c])
    /\ mergeThrows(filtered[c][midx[c] + 1])
    /\ err' = [err EXCEPT ![c] = "merge"]
    /\ pc' = [pc EXCEPT ![c] = "aborted"]
    /\ running' = "none"
    /\ UNCHANGED <<allowFile, logoDirs, baseFile, outFile, allowlist, list, pairs, filtered,
                   midx, q>>

\* after the loop: generateTokensList and writeToFileWithUpdate
Persist(c) ==
    /\ MayRun(c)
    /\ midx[c] = Len(filtered[c])
    /\ outFile' = [outFile EXCEPT ![outputPath(c)] =
                      Some(generateTokensList(ListName(c), list[c],
                                              "2020-10-03T12:37:57.000+00:00", 0, 1, 0))]
    /\ pc' = [pc EXCEPT ![c] = "done"]
    /\ running' = "none"
    /\ UNCHANGED <<allowFile, logoDirs, baseFile, allowlist, list, pairs, filtered, midx, err, q>>

Next ==
    \E c \in Chains :
        \/ Start(c)
        \/ FetchFail(c)
        \/ FetchOk(c)
        \/ MergeStep(c)
        \/ MergeThrow(c)
        \/ Persist(c)

Spec == Init /\ [][Next]_vars

-----------------------------------------------------------------------------
(* Properties of the qualifier *)

PrimarySymbols(c) == {PrimaryTokens(c)[i] : i \in 1..Len(PrimaryTokens(c))}

\* the side is present and its upper-cased symbol is a primary symbol
SideIsPrimary(c, side) == side # Absent /\ toUpperCase(side[1].symbol) \in PrimarySymbols(c)

\* the side has a logo on disk and is in the allowlist, ignoring case
SideIsListed(c, side, allow, disk) ==
    /\ side # Absent
    /\ <<c, side[1].id>> \in disk
    /\ \E i \in 1..Len(allow) : toLowerCase(allow[i]) = toLowerCase(side[1].id)

Admitted == q.result = Some("true")

\* C1 as stated: an admitted pair has exactly one primary side, and its
\* non-primary side is in the allowlist and has a logo.
C1_ExactlyOnePrimary ==
    Admitted =>
        LET p0 == SideIsPrimary(q.chain, q.pair.token0)
            p1 == SideIsPrimary(q.chain, q.pair.token1)
        IN  /\ p0 # p1
            /\ ~p0 => SideIsListed(q.chain, q.pair.token0, q.allow, logoDirs)
            /\ ~p1 => SideIsListed(q.chain, q.pair.token1, q.allow, logoDirs)

\* C1 amended: an admitted pair has at least one primary side, and every
\* non-primary side of it is in the allowlist and has a logo.
C1_SomePrimary ==
    Admitted =>
        LET p0 == SideIsPrimary(q.chain, q.pair.token0)
            p1 == SideIsPrimary(q.chain, q.pair.token1)
        IN  /\ p0 \/ p1
            /\ ~p0 => SideIsListed(q.chain, q.pair.token0, q.allow, logoDirs)
            /\ ~p1 => SideIsListed(q.chain, q.pair.token1, q.allow, logoDirs)

\* an admitted pair whose second side alone is primary
C1_Witness ==
    /\ Admitted
    /\ ~SideIsPrimary(q.chain, q.pair.token0)
    /\ SideIsPrimary(q.chain, q.pair.token1)

AllMissing(pair) ==
    /\ pair.id = ""
    /\ pair.reserveUSD \in {Absent, Some(0)}
    /\ pair.token0 = Absent
    /\ pair.token1 = Absent

FiveRules(c, pair, min, allow, disk) ==
    /\ ~AllMissing(pair)
    /\ pair.reserveUSD # Absent /\ pair.reserveUSD[1] >= min
    /\ SideIsListed(c, pair.token0, allow, disk)
    /\ SideIsListed(c, pair.token1, allow, disk)
    /\ SideIsPrimary(c, pair.token0) \/ SideIsPrimary(c, pair.token1)

\* C6: checkTradingPair returns true exactly when the five rules pass (not
\* all-missing, reserveUSD >= minLiquidity, both sides listed with a logo,
\* some side primary).
C6_FiveRules ==
    q.result # Absent =>
        (Admitted <=> FiveRules(q.chain, q.pair, MinLiquidity(q.chain), q.allow, logoDirs))

\* C7: primaryTokenIndex is 1 if token0's upper-cased symbol is primary,
\* otherwise 2 if token1's is, otherwise 0; with both primary it is 1.
C7_PrimaryIndex ==
    q.index # Absent =>
        LET t0 == q.pair.token0
            t1 == q.pair.token1
            p0 == SideIsPrimary(q.chain, t0)
            p1 == SideIsPrimary(q.chain, t1)
        IN  /\ p0 => q.index = Some("1")
            /\ (t0 # Absent /\ ~p0 /\ p1) => q.index = Some("2")
            /\ (t0 # Absent /\ t1 # Absent /\ ~p0 /\ ~p1) => q.index = Some("0")

\* both sides primary, one of them by a lower-case symbol, classified FIRST
C7_Witness ==
    /\ q.index = Some("1")
    /\ SideIsPrimary(q.chain, q.pair.token0)
    /\ SideIsPrimary(q.chain, q.pair.token1)
    /\ q.pair.token0[1].symbol # toUpperCase(q.pair.token0[1].symbol)

-----------------------------------------------------------------------------
(* Properties of the merge and of update() *)

ChecksumAddresses(tokens) == {toChecksum(tokens[i].address) : i \in 1..Len(tokens)}

NoDuplicates(tokens) ==
    \A i, j \in 1..Len(tokens) :
        i # j => toChecksum(tokens[i].address) # toChecksum(tokens[j].address)

Written(c) == outFile[getChainTokenlistPath(c)]

C3_NoDuplicateAddresses ==
    \A c \in Chains :
        /\ NoDuplicates(list[c])
        /\ Written(c) # Absent => NoDuplicates(Written(c)[1].tokens)

\* two merged pairs share a token, under raw ids of different case
C3_Witness ==
    \E c \in Chains :
        /\ pc[c] = "done"
        /\ midx[c] = 2
        /\ filtered[c][1].token0[1].id # filtered[c][2].token1[1].id
        /\ toChecksum(filtered[c][1].token0[1].id) = toChecksum(filtered[c][2].token1[1].id)

\* C4: the list keeps the base list as an unchanged prefix, and what follows it
\* are tokens absent from the base list, each once.
C4_AppendOnly ==
    \A c \in Chains :
        pc[c] # "idle" =>
            LET b == Len(baseFile[c])
                n == Len(list[c])
            IN  /\ n >= b
                /\ SubSeq(list[c], 1, b) = baseFile[c]
                /\ \A i \in (b + 1)..n :
                      /\ toChecksum(list[c][i].address) \notin ChecksumAddresses(baseFile[c])
                      /\ \A j \in (b + 1)..n :
                            i # j => toChecksum(list[c][i].address) # toChecksum(list[c][j].address)
                /\ pc[c] = "done" => Written(c) # Absent /\ Written(c)[1].tokens = list[c]

\* a run over a base list is done: a merged pair carried a token of the base
\* list under another name, and a token was appended
C4_Witness ==
    \E c \in Chains :
        /\ pc[c] = "done"
        /\ Len(list[c]) > Len(baseFile[c])
        /\ \E i \in 1..Len(filtered[c]) , k \in 1..Len(baseFile[c]) :
              /\ toChecksum(filtered[c][i].token0[1].id) = baseFile[c][k].address
              /\ filtered[c][i].token0[1].name # baseFile[c][k].name

\* C5: once the pairs are fetched, an exception while processing a pair skips
\* that pair only: the run does not abort, the list is written, and it holds
\* the tokens of every other admissible pair.
C5_PairIsolation ==
    \A c \in Chains :
        (pc[c] \in {"done", "aborted"} /\ err[c] # "transport") =>
            /\ pc[c] = "done"
            /\ Written(c) # Absent
            /\ \A i \in 1..Len(pairs[c]) :
                  (keepsPair(c, pairs[c][i], allowFile[c], logoDirs) /\ ~mergeThrows(pairs[c][i]))
                  => {toChecksum(pairs[c][i].token0[1].id), toChecksum(pairs[c][i].token1[1].id)}
                        \subseteq ChecksumAddresses(Written(c)[1].tokens)

\* C9: a failed fetch rejects update(): nothing is filtered or merged and the
\* token list file is not written.
C9_FetchFailureAborts ==
    \A c \in Chains :
        err[c] = "transport" =>
            /\ pc[c] = "aborted"
            /\ pairs[c] = <<>> /\ filtered[c] = <<>> /\ midx[c] = 0
            /\ list[c] = baseFile[c]
            /\ Written(c) = Absent

\* one chain's fetch failed while the other chain's run wrote its list
C9_Witness ==
    \E c, d \in Chains :
        /\ c # d
        /\ err[c] = "transport" /\ pc[c] = "aborted"
        /\ pc[d] = "done" /\ Written(d) # Absent

RECURSIVE mergeAll(_, _, _)
mergeAll(c, ps, tokens) ==
    IF ps = <<>> THEN tokens ELSE mergeAll(c, Tail(ps), mergePair(c, Head(ps), tokens))

\* the list a chain's run writes when it runs alone
RunAlone(c) ==
    generateTokensList(ListName(c),
                       mergeAll(c, filterPairs(c, pairs[c], allowFile[c], logoDirs), baseFile[c]),
                       "2020-10-03T12:37:57.000+00:00", 0, 1, 0)

\* C10: whatever the interleaving of the two runs, the file of a chain whose
\* run is done holds the list that chain produces alone.
C10_ChainsIndependent ==
    \A c \in Chains : pc[c] = "done" => Written(c) = Some(RunAlone(c))

\* both runs are done and wrote different, non-empty lists
C10_Witness ==
    /\ \A c \in Chains : pc[c] = "done" /\ Written(c) # Absent /\ Len(Written(c)[1].tokens) >= 2
    /\ Written(Ethereum)[1].tokens # Written(SmartChain)[1].tokens

====
